---------------------------- MODULE Spec2Model ----------------------------
(***************************************************************************)
(* SeqSmith: the file-processing operations of bio_files_processor.py,     *)
(* filter_fastq of seqsmith.py and fastq_to_dict_generator of              *)
(* utils/filter_fastq_utils.py, as one state machine.                      *)
(*                                                                         *)
(* A run is one call of one operation.  `op' names the operation, `args'   *)
(* its arguments, `input_file' the content of the input file, `dest' the   *)
(* destination file, `local' the local variables of the running function  *)
(* (under the names the source gives them), `pos' the number of input      *)
(* lines (or records) read so far, `pc' the position in the function and   *)
(* `exc' the exception that ended it.                                      *)
(*                                                                         *)
(* A text is a sequence of one-character strings.  An input line keeps its *)
(* line break, as the lines Python's file iteration yields do.             *)
(***************************************************************************)
EXTENDS Integers, Sequences, FiniteSets

VARIABLES op, args, input_file, pos, dest, open_files, pc, exc, local, log,
          yielded

vars == <<op, args, input_file, pos, dest, open_files, pc, exc, local, log,
          yielded>>

-----------------------------------------------------------------------------
(* Bounds of the model.                                                    *)

MaxFastaLines == 5
MaxBlastLines == 4
MaxGbkBlocks == 3
MaxWindow == 1
MaxRecords == 3
MaxFastqLines == 5

-----------------------------------------------------------------------------
(* Text primitives (Python str methods).                                   *)

Q == "\""
NL == "\n"

\* The characters str.strip() removes, among those the inputs use.
Whitespace == {" ", "\t", "\n"}

\* ord(c) for the characters the inputs use.
CharCode(c) ==
  CASE c = "\t" -> 9   [] c = "\n" -> 10  [] c = " " -> 32  [] c = "!" -> 33
    [] c = Q -> 34     [] c = "+" -> 43   [] c = "/" -> 47  [] c = "5" -> 53
    [] c = "=" -> 61   [] c = ">" -> 62   [] c = "@" -> 64  [] c = "A" -> 65
    [] c = "B" -> 66   [] c = "C" -> 67   [] c = "D" -> 68  [] c = "G" -> 71
    [] c = "I" -> 73   [] c = "K" -> 75   [] c = "L" -> 76  [] c = "M" -> 77
    [] c = "Q" -> 81   [] c = "S" -> 83   [] c = "T" -> 84  [] c = "V" -> 86
    [] c = "a" -> 97   [] c = "b" -> 98   [] c = "c" -> 99  [] c = "e" -> 101
    [] c = "g" -> 103  [] c = "i" -> 105  [] c = "l" -> 108 [] c = "n" -> 110
    [] c = "o" -> 111  [] c = "p" -> 112  [] c = "r" -> 114 [] c = "s" -> 115
    [] c = "t" -> 116  [] c = "x" -> 120  [] c = "y" -> 121 [] c = "z" -> 122

RECURSIVE LStripChars(_, _)
LStripChars(s, chars) ==
  IF s = <<>> THEN s
  ELSE IF Head(s) \in chars THEN LStripChars(Tail(s), chars) ELSE s

RECURSIVE RStripChars(_, _)
RStripChars(s, chars) ==
  IF s = <<>> THEN s
  ELSE IF s[Len(s)] \in chars THEN RStripChars(SubSeq(s, 1, Len(s) - 1), chars)
       ELSE s

\* s.strip(chars)
StripChars(s, chars) == RStripChars(LStripChars(s, chars), chars)

\* s.strip()
Strip(s) == StripChars(s, Whitespace)

\* s.startswith(p), s.endswith(p)
StartsWith(s, p) == Len(s) >= Len(p) /\ SubSeq(s, 1, Len(p)) = p
EndsWith(s, p) ==
  Len(s) >= Len(p) /\ SubSeq(s, Len(s) - Len(p) + 1, Len(s)) = p

\* The positions at which p occurs in s.
Occurrences(s, p) ==
  {i \in 1..(Len(s) - Len(p) + 1) : SubSeq(s, i, i + Len(p) - 1) = p}

Min(S) == CHOOSE x \in S : \A y \in S : x <= y
Max(S) == CHOOSE x \in S : \A y \in S : y <= x

\* s.split(p)[0]: the text before the first occurrence of p, all of s without one.
SplitFirst(s, p) ==
  IF Occurrences(s, p) = {} THEN s ELSE SubSeq(s, 1, Min(Occurrences(s, p)) - 1)

\* s.split(p)[-1]: the text after the last occurrence of p, all of s without one.
SplitLast(s, p) ==
  IF Occurrences(s, p) = {} THEN s
  ELSE SubSeq(s, Max(Occurrences(s, p)) + Len(p), Len(s))

\* a <= b for Python strings: lexicographic by character code.
RECURSIVE StrLeq(_, _)
StrLeq(a, b) ==
  IF a = <<>> THEN TRUE
  ELSE IF b = <<>> THEN FALSE
  ELSE IF Head(a) = Head(b) THEN StrLeq(Tail(a), Tail(b))
  ELSE CharCode(Head(a)) < CharCode(Head(b))

\* The line as file iteration yields it: the text and its line break.
RawLine(text) == text \o <<NL>>

\* All sequences over S of length at most n.
SeqsUpTo(S, n) == UNION {[1..k -> S] : k \in 0..n}

RECURSIVE Flatten(_)
Flatten(ss) == IF ss = <<>> THEN <<>> ELSE Head(ss) \o Flatten(Tail(ss))

-----------------------------------------------------------------------------
(* The file system: the destination file, and a run's ending.              *)

NoFile == [exists |-> FALSE, content |-> <<>>]
\* A destination that is already there when the operation starts.
OldFile == [exists |-> TRUE, content |-> << <<"o", "l", "d">> >>]

\* open(path, 'w'): the file is created, or truncated.
OpenForWriting == [exists |-> TRUE, content |-> <<>>]

\* file.write(text + "\n") for each text of `texts', in order.
WriteLines(file, texts) == [file EXCEPT !.content = @ \o texts]

NoLocals == [none |-> TRUE]
NoArgs == [none |-> TRUE]

\* raise e: the `with' blocks close the files that are open, nothing else changes.
Raise(e) ==
  /\ pc' = "error"
  /\ exc' = e
  /\ open_files' = {}

\* The test made after open(output, 'w'), which truncates the file.
RaiseFileExistsAfterOpen ==
  /\ Raise("FileExistsError")
  /\ dest' = [exists |-> TRUE, content |-> <<>>]
  /\ UNCHANGED <<op, args, input_file, pos, local, yielded>>

\* os.path.exists(output): raise FileExistsError(...)
RaiseFileExists ==
  /\ Raise("FileExistsError")
  /\ UNCHANGED <<op, args, input_file, pos, dest, local, yielded>>

\* The call has returned or raised, or its consumer has stopped.
Terminated == pc \in {"done", "error", "abandoned", "closed"}

-----------------------------------------------------------------------------
(* convert_multiline_fasta_to_oneline                                      *)

FastaOp == "convert_multiline_fasta_to_oneline"

FastaTexts ==
  { <<">", "x">>, <<" ", ">", "y", " ">>, <<"A", "C">>, <<" ", "G", "T">>,
    <<>> }

InitFasta ==
  /\ op = FastaOp
  /\ args = NoArgs
  /\ input_file \in SeqsUpTo({RawLine(t) : t \in FastaTexts}, MaxFastaLines)
  /\ dest \in {NoFile, OldFile}
  /\ local = [sequence |-> <<>>]
  /\ log = <<>>
  /\ yielded = <<>>

\* The loop body without `sequence = ""' after a marker line.
FastaStepNoReset(sequence, line) ==
  IF StartsWith(line, <<">">>)
  THEN [written |-> (IF sequence # <<>> THEN <<sequence>> ELSE <<>>) \o <<line>>,
        sequence |-> sequence]
  ELSE [written |-> <<>>, sequence |-> sequence \o line]

\* One iteration of the loop: what is written, and the new accumulator.
FastaStep(sequence, line) ==
  IF StartsWith(line, <<">">>)
  THEN [written |-> (IF sequence # <<>> THEN <<sequence>> ELSE <<>>) \o <<line>>,
        sequence |-> <<>>]
  ELSE [written |-> <<>>, sequence |-> sequence \o line]

FastaStart ==
  /\ op = FastaOp /\ pc = "start"
  /\ IF dest.exists
     THEN RaiseFileExists /\ UNCHANGED log
     ELSE /\ open_files' = {"input", "output"}
          /\ dest' = OpenForWriting
          /\ local' = [sequence |-> <<>>]
          /\ pc' = "loop"
          /\ UNCHANGED <<op, args, input_file, pos, exc, log, yielded>>

FastaLine ==
  /\ op = FastaOp /\ pc = "loop" /\ pos < Len(input_file)
  /\ LET line == Strip(input_file[pos + 1])
         step == FastaStep(local.sequence, line)
     IN /\ dest' = WriteLines(dest, step.written)
        /\ local' = [sequence |-> step.sequence]
  /\ pos' = pos + 1
  /\ UNCHANGED <<op, args, input_file, open_files, pc, exc, log, yielded>>

FastaEnd ==
  /\ op = FastaOp /\ pc = "loop" /\ pos = Len(input_file)
  /\ dest' = WriteLines(dest, IF local.sequence # <<>> THEN <<local.sequence>>
                              ELSE <<>>)
  /\ open_files' = {}
  /\ pc' = "done"
  /\ UNCHANGED <<op, args, input_file, pos, exc, local, log, yielded>>

-----------------------------------------------------------------------------
(* Claims about convert_multiline_fasta_to_oneline.                        *)

\* A marker line: the line begins, once stripped, with '>'.
FastaIsMarker(raw) == StartsWith(Strip(raw), <<">">>)

FastaMarkers(inp) == {i \in 1..Len(inp) : FastaIsMarker(inp[i])}

\* The k-th marker line of inp, counted from 1.
FastaKthMarker(inp, k) ==
  CHOOSE i \in FastaMarkers(inp) :
    Cardinality({j \in FastaMarkers(inp) : j <= i}) = k

\* The first marker line after line i, or the line after the last one.
FastaNextMarker(inp, i) ==
  Min({j \in FastaMarkers(inp) : j > i} \cup {Len(inp) + 1})

\* The stripped lines a..b of inp, concatenated.
RECURSIVE ConcatStripped(_, _, _)
ConcatStripped(inp, a, b) ==
  IF a > b THEN <<>> ELSE Strip(inp[a]) \o ConcatStripped(inp, a + 1, b)

\* The input starts with a marker line and every marker line has a non-empty
\* body line before the next marker line or the end of the input.
FastaWellFormed(inp) ==
  /\ inp # <<>>
  /\ FastaIsMarker(inp[1])
  /\ \A i \in FastaMarkers(inp) :
       \E j \in (i + 1)..(FastaNextMarker(inp, i) - 1) : Strip(inp[j]) # <<>>

\* C1: on a well-formed input with N marker lines the finished conversion has
\* written exactly N (id line, body line) pairs in input order; the k-th id line
\* is the k-th marker line stripped, the k-th body line is the concatenation of
\* the stripped lines up to the next marker line, and holds no line break.
C1_FastaOneLine ==
  (op = FastaOp /\ pc = "done" /\ FastaWellFormed(input_file)) =>
    LET n == Cardinality(FastaMarkers(input_file))
        out == dest.content
    IN /\ Len(out) = 2 * n
       /\ \A k \in 1..n :
            LET m == FastaKthMarker(input_file, k)
            IN /\ out[2 * k - 1] = Strip(input_file[m])
               /\ out[2 * k] =
                    ConcatStripped(input_file, m + 1,
                                   FastaNextMarker(input_file, m) - 1)
               /\ \A c \in 1..Len(out[2 * k]) : out[2 * k][c] # NL

\* Two records, the first with a body of two lines, the second's marker line
\* indented: '>x', 'AC', ' GT', ' >y ', 'AC' becomes '>x', 'ACGT', '>y', 'AC'.
C1_Witness ==
  /\ op = FastaOp /\ pc = "done"
  /\ input_file = << RawLine(<<">", "x">>), RawLine(<<"A", "C">>),
                     RawLine(<<" ", "G", "T">>),
                     RawLine(<<" ", ">", "y", " ">>), RawLine(<<"A", "C">>) >>
  /\ FastaWellFormed(input_file)
  /\ dest.content = << <<">", "x">>, <<"A", "C", "G", "T">>, <<">", "y">>,
                       <<"A", "C">> >>

-----------------------------------------------------------------------------
(* parse_blast_output                                                      *)

BlastOp == "parse_blast_output"

DescriptionLabel == <<"D", "e", "s", "c", "r", "i", "p", "t", "i", "o", "n">>

\* 'Description', ' Description x', 'b  z', 'a<TAB>  y', 'a' and the empty line.
BlastTexts ==
  { DescriptionLabel,
    <<" ">> \o DescriptionLabel \o <<" ", "x">>,
    <<"b", " ", " ", "z">>,
    <<"a", "\t", " ", " ", "y">>,
    <<"a">>,
    <<>> }

InitBlast ==
  /\ op = BlastOp
  /\ args = NoArgs
  /\ input_file \in SeqsUpTo({RawLine(t) : t \in BlastTexts}, MaxBlastLines)
  /\ dest \in {NoFile, OldFile}
  /\ local = [descriptions |-> <<>>]
  /\ log = <<>>
  /\ yielded = <<>>

\* mod_descr of the line next(blast_input_file) returned.
BlastValue(raw) == Strip(SplitFirst(Strip(raw), <<" ", " ">>))

\* x put into the ascending sequence s.
RECURSIVE InsertSorted(_, _)
InsertSorted(x, s) ==
  IF s = <<>> THEN <<x>>
  ELSE IF StrLeq(x, Head(s)) THEN <<x>> \o s
  ELSE <<Head(s)>> \o InsertSorted(x, Tail(s))

RECURSIVE SortTexts(_)
SortTexts(s) ==
  IF s = <<>> THEN <<>> ELSE InsertSorted(Head(s), SortTexts(Tail(s)))

\* The values left in encounter order.
SortDescriptionsSkipped(descriptions) == descriptions

\* descriptions.sort()
SortDescriptions(descriptions) == SortTexts(descriptions)

\* parse_blast_output with the output opened together with the input, as
\* convert_multiline_fasta_to_oneline opens its files.
BlastStartOpensOutput ==
  /\ op = BlastOp /\ pc = "start"
  /\ IF dest.exists
     THEN RaiseFileExists /\ UNCHANGED log
     ELSE /\ local' = [descriptions |-> <<>>]
          /\ dest' = OpenForWriting
          /\ open_files' = {"input", "output"}
          /\ pc' = "loop"
          /\ UNCHANGED <<op, args, input_file, pos, exc, log, yielded>>

BlastStart ==
  /\ op = BlastOp /\ pc = "start"
  /\ IF dest.exists
     THEN RaiseFileExists /\ UNCHANGED log
     ELSE /\ local' = [descriptions |-> <<>>]
          /\ open_files' = {"input"}
          /\ pc' = "loop"
          /\ UNCHANGED <<op, args, input_file, pos, dest, exc, log, yielded>>

\* for line in blast_input_file: a line that is no marker line is passed over,
\* a marker line leads to next(blast_input_file).
BlastLine ==
  /\ op = BlastOp /\ pc = "loop" /\ pos < Len(input_file)
  /\ pos' = pos + 1
  /\ pc' = IF StartsWith(Strip(input_file[pos + 1]), DescriptionLabel)
           THEN "next" ELSE "loop"
  /\ UNCHANGED <<op, args, input_file, dest, open_files, exc, local, log,
                 yielded>>

\* descr = next(blast_input_file).strip() and the two statements after it;
\* at the end of the input next() raises StopIteration, which nothing catches.
BlastNext ==
  /\ op = BlastOp /\ pc = "next"
  /\ IF pos = Len(input_file)
     THEN /\ Raise("StopIteration")
          /\ UNCHANGED <<op, args, input_file, pos, dest, local, log, yielded>>
     ELSE /\ local' = [descriptions |->
                         Append(local.descriptions,
                                BlastValue(input_file[pos + 1]))]
          /\ pos' = pos + 1
          /\ pc' = "loop"
          /\ UNCHANGED <<op, args, input_file, dest, open_files, exc, log,
                         yielded>>

\* The input is exhausted: it is closed, the values are sorted and written.
BlastEnd ==
  /\ op = BlastOp /\ pc = "loop" /\ pos = Len(input_file)
  /\ local' = [descriptions |-> SortDescriptions(local.descriptions)]
  /\ dest' = WriteLines(OpenForWriting, local'.descriptions)
  /\ open_files' = {}
  /\ pc' = "done"
  /\ UNCHANGED <<op, args, input_file, pos, exc, log, yielded>>

-----------------------------------------------------------------------------
(* Claims about parse_blast_output.                                        *)

BlastIsMarker(raw) == StartsWith(Strip(raw), DescriptionLabel)

\* The first line of the run of consecutive marker lines that line i ends.
BlastRunStart(inp, i) ==
  Min({m \in 1..i : \A j \in m..i : BlastIsMarker(inp[j])})

\* Line i is a marker line the scan meets: a marker line that is not itself
\* consumed as the line following a marker line.  In a run of consecutive
\* marker lines these are the first, the third, and so on.
BlastScanned(inp, i) ==
  /\ BlastIsMarker(inp[i])
  /\ (i - BlastRunStart(inp, i)) % 2 = 0

\* The lines i+1, for the lines i of I, by ascending i.
RECURSIVE LinesAfter(_, _)
LinesAfter(inp, I) ==
  IF I = {} THEN <<>>
  ELSE LET i == Min(I) IN <<inp[i + 1]>> \o LinesAfter(inp, I \ {i})

IsAscending(s) == \A i, j \in 1..Len(s) : i <= j => StrLeq(s[i], s[j])

Occurs(s, v) == Cardinality({i \in 1..Len(s) : s[i] = v})

IsPermutation(s, t) ==
  /\ Len(s) = Len(t)
  /\ \A i \in 1..Len(s) : Occurs(s, s[i]) = Occurs(t, s[i])

\* C9 as stated: every line that starts with the label has its following line
\* consumed as one value, the line trimmed and cut at the first two spaces, and
\* the output is these values sorted.
C9_EveryMarkerLine ==
  (op = BlastOp /\ pc = "done") =>
    LET markers == {i \in 1..Len(input_file) : BlastIsMarker(input_file[i])}
        cut(raw) == SplitFirst(Strip(raw), <<" ", " ">>)
    IN /\ \A i \in markers : i < Len(input_file)
       /\ IsAscending(dest.content)
       /\ IsPermutation(dest.content,
                       [k \in 1..Cardinality(markers) |->
                          cut(LinesAfter(input_file, markers)[k])])

\* C9 amended: when the operation returns, every marker line the scan meets (a
\* marker line consumed as a value is not scanned as a marker) contributed its
\* following line trimmed, cut at the first two spaces and trimmed again; the
\* output is the ascending permutation of these values, duplicates kept.
C9_ScannedMarkerLines ==
  (op = BlastOp /\ pc = "done") =>
    LET scanned == {i \in 1..Len(input_file) : BlastScanned(input_file, i)}
        cut(raw) == Strip(SplitFirst(Strip(raw), <<" ", " ">>))
    IN /\ \A i \in scanned : i < Len(input_file)
       /\ IsAscending(dest.content)
       /\ IsPermutation(dest.content,
                       [k \in 1..Cardinality(scanned) |->
                          cut(LinesAfter(input_file, scanned)[k])])

\* 'Description', 'b  z', 'Description', 'a': the values b and a, written a, b.
C9_Witness ==
  /\ op = BlastOp /\ pc = "done"
  /\ input_file = << RawLine(DescriptionLabel), RawLine(<<"b", " ", " ", "z">>),
                     RawLine(DescriptionLabel), RawLine(<<"a">>) >>
  /\ dest.content = << <<"a">>, <<"b">> >>

-----------------------------------------------------------------------------
(* select_genes_from_gbk_to_fasta                                          *)

GbkOp == "select_genes_from_gbk_to_fasta"

GeneLabel == <<"/", "g", "e", "n", "e", "=">>
TranslationLabel ==
  <<"/", "t", "r", "a", "n", "s", "l", "a", "t", "i", "o", "n", "=">>

\* Python's None, which is no text.
None == <<"None">>

\* bool(x) of a text or None.
Truthy(x) == x # None /\ x # <<>>

\* The inputs are built from these groups of lines:
\*   '  /gene="A"', '  /translation="M"'     a name and its value
\*   '/gene="B"', '/translation="K', 'L"'    a value on two lines
\*   '/gene="C"'                             a name without a value
\*   '/translation="Q"'                      a value without a name
\*   '/translation="V'                       a value that is not closed
\*   'CDS'                                   another line
\*   '/gene=""'                              a name that is the empty text
\*   '/translation=""'                       a value that is the empty text
GbkBlocks ==
  { << <<" ", " ">> \o GeneLabel \o <<Q, "A", Q>>,
       <<" ", " ">> \o TranslationLabel \o <<Q, "M", Q>> >>,
    << GeneLabel \o <<Q, "B", Q>>,
       TranslationLabel \o <<Q, "K">>,
       <<"L", Q>> >>,
    << GeneLabel \o <<Q, "C", Q>> >>,
    << TranslationLabel \o <<Q, "Q", Q>> >>,
    << TranslationLabel \o <<Q, "V">> >>,
    << <<"C", "D", "S">> >>,
    << GeneLabel \o <<Q, Q>> >>,
    << TranslationLabel \o <<Q, Q>> >> }

\* The values of the argument `genes'.
GeneQueries == { {<<"A">>}, {<<"A">>, <<"B">>}, {<<"B">>, <<"C">>} }

InitGbk ==
  /\ op = GbkOp
  /\ \E genes \in GeneQueries, n_before \in 0..MaxWindow, n_after \in 0..MaxWindow :
       args = [genes |-> genes, n_before |-> n_before, n_after |-> n_after]
  /\ \E blocks \in SeqsUpTo(GbkBlocks, MaxGbkBlocks) :
       input_file = [i \in 1..Len(Flatten(blocks)) |->
                       RawLine(Flatten(blocks)[i])]
  /\ dest \in {NoFile, OldFile}
  /\ local = [fasta_list |-> <<>>, gene |-> None, translation |-> None,
              translation_is_in_gene |-> FALSE, line |-> None,
              genes_index |-> <<>>]
  /\ log = <<>>
  /\ yielded = <<>>

\* The commit with the tests `gene is not None and translation is not None'.
CommitWhenSet(fasta_list, gene, translation) ==
  IF gene # None /\ translation # None
  THEN Append(fasta_list, <<gene, translation>>)
  ELSE fasta_list

\* if gene and translation: fasta_list.append((gene, translation))
Commit(fasta_list, gene, translation) ==
  IF Truthy(gene) /\ Truthy(translation)
  THEN Append(fasta_list, <<gene, translation>>)
  ELSE fasta_list

\* The indices of all entries, without the test `gene in genes'.
GenesIndexAll(fasta_list, genes) == [i \in 1..Len(fasta_list) |-> i - 1]

\* The indices, from 0, of the entries whose name is in genes, ascending.
GenesIndex(fasta_list, genes) ==
  SelectSeq([i \in 1..Len(fasta_list) |-> i - 1],
            LAMBDA i : fasta_list[i + 1][1] \in genes)

\* fasta_list[start:end] for 0 <= start and 0 <= end.
Slice(list, start, end) == SubSeq(list, start + 1, Min({end, Len(list)}))

\* The window without max(0, ...): fasta_list[index - n_before : end], where
\* a negative start counts from the end of the list.
WindowUnclipped(fasta_list, index, n_before, n_after) ==
  LET start == IF index - n_before < 0
               THEN Max({0, Len(fasta_list) + index - n_before})
               ELSE index - n_before
      end == Min({Len(fasta_list), index + n_after + 1})
  IN Slice(fasta_list, start, end)

\* fasta_list[start:end] of the entry at index.
Window(fasta_list, index, n_before, n_after) ==
  LET start == Max({0, index - n_before})
      end == Min({Len(fasta_list), index + n_after + 1})
  IN Slice(fasta_list, start, end)

\* The two lines written for each entry: '>' and the name, then the value.
EntryLines(entries) ==
  Flatten([k \in 1..Len(entries) |->
             << <<">">> \o entries[k][1], entries[k][2] >>])

GbkStart ==
  /\ op = GbkOp /\ pc = "start"
  /\ IF dest.exists
     THEN RaiseFileExists /\ UNCHANGED log
     ELSE /\ local' = [fasta_list |-> <<>>, gene |-> None, translation |-> None,
                       translation_is_in_gene |-> FALSE, line |-> None,
                       genes_index |-> <<>>]
          /\ open_files' = {"input"}
          /\ pc' = "loop"
          /\ UNCHANGED <<op, args, input_file, pos, dest, exc, log, yielded>>

\* One iteration of `for line in input_gbk_file', up to the test of the while loop.
GbkLine ==
  /\ op = GbkOp /\ pc = "loop" /\ pos < Len(input_file)
  /\ pos' = pos + 1
  /\ LET line == Strip(input_file[pos + 1])
     IN IF StartsWith(line, GeneLabel)
        THEN /\ local' = [local EXCEPT
                  !.fasta_list = Commit(@, local.gene, local.translation),
                  !.gene = StripChars(SplitLast(line, <<"=">>), {Q}),
                  !.translation = None,
                  !.translation_is_in_gene = TRUE,
                  !.line = line]
             /\ pc' = "loop"
        ELSE IF StartsWith(line, TranslationLabel)
                /\ local.translation_is_in_gene
        THEN /\ local' = [local EXCEPT
                  !.translation =
                     StripChars(Strip(SplitLast(line, <<"=">>)), {Q}),
                  !.translation_is_in_gene = ~EndsWith(line, <<Q>>),
                  !.line = line]
             /\ pc' = IF EndsWith(line, <<Q>>) THEN "loop" ELSE "continuation"
        ELSE /\ local' = [local EXCEPT !.line = line]
             /\ pc' = "loop"
  /\ UNCHANGED <<op, args, input_file, dest, open_files, exc, log, yielded>>

\* The while loop with next(input_gbk_file, '"'): the end of the input closes
\* the value.
GbkContinuationDefault ==
  /\ op = GbkOp /\ pc = "continuation"
  /\ LET line == IF pos = Len(input_file) THEN <<Q>>
                 ELSE Strip(input_file[pos + 1])
     IN /\ local' = [local EXCEPT
             !.translation = @ \o StripChars(line, {Q}),
             !.translation_is_in_gene = ~EndsWith(line, <<Q>>),
             !.line = line]
        /\ pc' = IF EndsWith(line, <<Q>>) THEN "loop" ELSE "continuation"
  /\ pos' = IF pos = Len(input_file) THEN pos ELSE pos + 1
  /\ UNCHANGED <<op, args, input_file, dest, open_files, exc, log, yielded>>

\* The while loop with `translation += line': the quote characters of the
\* following lines stay in the value.
GbkContinuationKeepsQuotes ==
  /\ op = GbkOp /\ pc = "continuation"
  /\ IF pos = Len(input_file)
     THEN /\ Raise("StopIteration")
          /\ UNCHANGED <<op, args, input_file, pos, dest, local, log, yielded>>
     ELSE /\ LET line == Strip(input_file[pos + 1])
             IN /\ local' = [local EXCEPT
                     !.translation = @ \o line,
                     !.translation_is_in_gene = ~EndsWith(line, <<Q>>),
                     !.line = line]
                /\ pc' = IF EndsWith(line, <<Q>>) THEN "loop"
                         ELSE "continuation"
          /\ pos' = pos + 1
          /\ UNCHANGED <<op, args, input_file, dest, open_files, exc, log,
                         yielded>>

\* One iteration of `while not line.endswith('"')'; at the end of the input
\* next() raises StopIteration, which nothing catches.
GbkContinuation ==
  /\ op = GbkOp /\ pc = "continuation"
  /\ IF pos = Len(input_file)
     THEN /\ Raise("StopIteration")
          /\ UNCHANGED <<op, args, input_file, pos, dest, local, log, yielded>>
     ELSE /\ LET line == Strip(input_file[pos + 1])
             IN /\ local' = [local EXCEPT
                     !.translation = @ \o StripChars(line, {Q}),
                     !.translation_is_in_gene = ~EndsWith(line, <<Q>>),
                     !.line = line]
                /\ pc' = IF EndsWith(line, <<Q>>) THEN "loop"
                         ELSE "continuation"
          /\ pos' = pos + 1
          /\ UNCHANGED <<op, args, input_file, dest, open_files, exc, log,
                         yielded>>

\* The input is exhausted: the last entry is committed, the input is closed and
\* the indices of the requested genes are collected.
GbkParsed ==
  /\ op = GbkOp /\ pc = "loop" /\ pos = Len(input_file)
  /\ LET fasta_list == Commit(local.fasta_list, local.gene, local.translation)
     IN local' = [local EXCEPT
                    !.fasta_list = fasta_list,
                    !.genes_index = GenesIndex(fasta_list, args.genes)]
  /\ open_files' = {}
  /\ pc' = "write"
  /\ UNCHANGED <<op, args, input_file, pos, dest, exc, log, yielded>>

\* The destination is opened and the window of every index is written.
GbkWrite ==
  /\ op = GbkOp /\ pc = "write"
  /\ dest' = WriteLines(OpenForWriting,
               Flatten([k \in 1..Len(local.genes_index) |->
                  EntryLines(Window(local.fasta_list, local.genes_index[k],
                                    args.n_before, args.n_after))]))
  /\ pc' = "done"
  /\ UNCHANGED <<op, args, input_file, pos, open_files, exc, local, log,
                 yielded>>

-----------------------------------------------------------------------------
(* Claims about the windows of select_genes_from_gbk_to_fasta.             *)

\* C4: with n_before = 0 and n_after = 0 the output is exactly the committed
\* entries whose name is requested, in the order of the committed list, one
\* pair of lines for each occurrence, and no other entry.
C4_NoNeighbours ==
  (op = GbkOp /\ pc = "done" /\ args.n_before = 0 /\ args.n_after = 0) =>
    dest.content =
      EntryLines(SelectSeq(local.fasta_list, LAMBDA e : e[1] \in args.genes))

\* A committed list holding a requested and another name, of which only the
\* requested one is written.
C4_Witness ==
  /\ op = GbkOp /\ pc = "done" /\ args.n_before = 0 /\ args.n_after = 0
  /\ Len(local.fasta_list) = 3
  /\ \E i, j \in 1..3 : /\ local.fasta_list[i][1] \in args.genes
                        /\ local.fasta_list[j][1] \notin args.genes
  /\ Len(dest.content) \in {2, 4}

\* The entries of list at the indices lo..hi, counted from 0.
RECURSIVE EntriesFromTo(_, _, _)
EntriesFromTo(list, lo, hi) ==
  IF lo > hi THEN <<>>
  ELSE <<list[lo + 1]>> \o EntriesFromTo(list, lo + 1, hi)

\* The windows of the matched indices i, i+1, ..., one after the other.
RECURSIVE WindowsFrom(_, _, _, _, _)
WindowsFrom(list, genes, n_before, n_after, i) ==
  IF i >= Len(list) THEN <<>>
  ELSE (IF list[i + 1][1] \in genes
        THEN EntriesFromTo(list,
                           IF i - n_before < 0 THEN 0 ELSE i - n_before,
                           (IF i + n_after + 1 > Len(list) THEN Len(list)
                            ELSE i + n_after + 1) - 1)
        ELSE <<>>)
       \o WindowsFrom(list, genes, n_before, n_after, i + 1)

\* C5: the output is the concatenation, over the matched indices i in ascending
\* order, of the entries at max(0, i - n_before) .. min(L, i + n_after + 1) - 1;
\* a window is clipped to the list without an error and overlapping windows are
\* each written in full.
C5_Windows ==
  (op = GbkOp /\ pc = "done") =>
    dest.content =
      EntryLines(WindowsFrom(local.fasta_list, args.genes, args.n_before,
                             args.n_after, 0))

\* The committed list A, B, A with A requested and one neighbour on each side:
\* the windows A, B and B, A are both clipped and both written, B twice.
C5_Witness ==
  /\ op = GbkOp /\ pc = "done" /\ args.n_before = 1 /\ args.n_after = 1
  /\ args.genes = {<<"A">>}
  /\ [k \in 1..Len(local.fasta_list) |-> local.fasta_list[k][1]]
       = << <<"A">>, <<"B">>, <<"A">> >>
  /\ [k \in 1..Len(dest.content) |-> dest.content[k]]
       = << <<">", "A">>, <<"M">>, <<">", "B">>, <<"K", "L">>,
            <<">", "B">>, <<"K", "L">>, <<">", "A">>, <<"M">> >>

-----------------------------------------------------------------------------
(* Claims about the end of the input.                                      *)

\* parse_blast_output has read a marker line that is the last line.
BlastNeedsLine == op = BlastOp /\ pc = "next" /\ pos = Len(input_file)

\* select_genes_from_gbk_to_fasta is inside a value that no later line closes.
GbkNeedsLine ==
  /\ op = GbkOp /\ pc = "continuation"
  /\ \A j \in (pos + 1)..Len(input_file) :
       ~EndsWith(Strip(input_file[j]), <<Q>>)

\* C10: when the input ends while a following line is still required, the
\* operation aborts with an error and does not return: parse_blast_output never
\* returns on an input whose last line is a marker line the scan meets, and a
\* step taken while a line is required and none can satisfy the parser either
\* raises StopIteration or leaves the parser still requiring a line.
C10_EndOfInputIsFatal ==
  /\ [](op = BlastOp /\ pc = "done" /\ input_file # <<>>
          => ~BlastScanned(input_file, Len(input_file)))
  /\ [][(BlastNeedsLine \/ GbkNeedsLine) =>
          \/ pc' = "error" /\ exc' = "StopIteration"
          \/ GbkNeedsLine']_vars

\* A value opened by '/translation="V' and never closed: StopIteration.
C10_Witness ==
  /\ op = GbkOp /\ pc = "error" /\ exc = "StopIteration"
  /\ pos = Len(input_file)
  /\ local.translation_is_in_gene
  /\ ~EndsWith(local.line, <<Q>>)

-----------------------------------------------------------------------------
(* filter_fastq                                                            *)
(*                                                                         *)
(* The input is the sequence of records SeqIO.parse yields: a name, a      *)
(* sequence and a quality string of the same length (SeqIO.parse accepts   *)
(* a record of length 0).  gc_fraction(seq) * 100 and the mean quality are *)
(* floats in the code; they are compared here as exact fractions, which    *)
(* gives the same answers for the bounds and the short sequences of this   *)
(* model.  A bound is a whole number, or a decimal number that is written  *)
(* as a number of thousandths.                                             *)

FilterOp == "filter_fastq"

Rec(name, seq, quality) == [name |-> name, seq |-> seq, quality |-> quality]

\* GGGG/!!!! (GC 100, quality 0), AT/II (GC 0, quality 40), GCA/I5! (GC 66.7,
\* quality 20), gCAT/5555 (GC 50, quality 20), GAT/III (GC 33.333..., quality
\* 40) and a record of length 0.
FastqRecords ==
  { Rec(<<"a">>, <<"G", "G", "G", "G">>, <<"!", "!", "!", "!">>),
    Rec(<<"b">>, <<"A", "T">>, <<"I", "I">>),
    Rec(<<"c">>, <<"G", "C", "A">>, <<"I", "5", "!">>),
    Rec(<<"e">>, <<"g", "C", "A", "T">>, <<"5", "5", "5", "5">>),
    Rec(<<"t">>, <<"G", "A", "T">>, <<"I", "I", "I">>),
    Rec(<<"n">>, <<>>, <<>>) }

\* The values of a bounds argument: a pair of numbers, one number, or text
\* where numbers are expected (a string, or a pair of strings).
\* The numbers of a pair are low / scale and high / scale.
Pair(low, high) == [kind |-> "pair", low |-> low, high |-> high, scale |-> 1]
PairOfThousandths(low, high) ==
  [kind |-> "pair", low |-> low, high |-> high, scale |-> 1000]
Scalar(value) == [kind |-> "scalar", value |-> value]
Text == [kind |-> "text"]

LengthBoundsArgs == { Pair(0, 10), Pair(3, 4), Scalar(3), Text }
\* (0, 100), (50, 100), (60, 40), (0, 33.333), 50 and text.
GcBoundsArgs ==
  { Pair(0, 100), Pair(50, 100), Pair(60, 40), PairOfThousandths(0, 33333),
    Scalar(50), Text }
QualityThresholdArgs == { Scalar(0), Scalar(1), Scalar(30), Text }

InitFilter ==
  /\ op = FilterOp
  /\ \E gc \in GcBoundsArgs, len \in LengthBoundsArgs,
        q \in QualityThresholdArgs :
       args = [gc_bounds |-> gc, length_bounds |-> len, quality_threshold |-> q]
  /\ input_file \in SeqsUpTo(FastqRecords, MaxRecords)
  /\ dest \in {NoFile, OldFile}
  /\ local = [gc_bounds |-> args.gc_bounds,
              length_bounds |-> args.length_bounds,
              filtered_count |-> 0, total_count |-> 0]
  /\ log = <<>>
  /\ yielded = <<>>

\* The scalar taken as the low bound: bounds = (bounds, 0).
NormalizeBoundsSwapped(bounds) ==
  IF bounds.kind = "scalar" THEN Pair(bounds.value, 0) ELSE bounds

\* if isinstance(bounds, (int, float)): bounds = (0, bounds)
NormalizeBounds(bounds) ==
  IF bounds.kind = "scalar" THEN Pair(0, bounds.value) ELSE bounds

\* A metric as a fraction num / den, den > 0.
Frac(num, den) == [num |-> num, den |-> den]

\* len(fastq_seq.seq)
SeqLen(rec) == Frac(Len(rec.seq), 1)

\* round(x, 3) of the fraction x = num / den, as a number of thousandths; no
\* fraction of this model lies halfway between two thousandths.
RoundToThousandths(num, den) == (2000 * num + den) \div (2 * den)

\* gc_fraction(fastq_seq.seq) * 100 after round(..., 3).
GcContentRounded(rec) ==
  IF rec.seq = <<>> THEN Frac(0, 1)
  ELSE Frac(RoundToThousandths(
              100 * Cardinality({i \in 1..Len(rec.seq) :
                                   rec.seq[i] \in {"G", "C", "g", "c"}}),
              Len(rec.seq)),
            1000)

\* gc_fraction(fastq_seq.seq) * 100; gc_fraction is 0 on the empty sequence.
GcContent(rec) ==
  IF rec.seq = <<>> THEN Frac(0, 1)
  ELSE Frac(100 * Cardinality({i \in 1..Len(rec.seq) :
                                 rec.seq[i] \in {"G", "C", "g", "c"}}),
            Len(rec.seq))

\* letter_annotations["phred_quality"]: ord(c) - 33 for each character.
RECURSIVE SumPhred(_)
SumPhred(quality) ==
  IF quality = <<>> THEN 0
  ELSE (CharCode(Head(quality)) - 33) + SumPhred(Tail(quality))

\* sum_quality / len_quality, for a quality string that is not empty.
MeanQuality(rec) == Frac(SumPhred(rec.quality), Len(rec.quality))

\* low <= metric <= high: "TypeError" when a bound is text.
Between(bounds, metric) ==
  IF bounds.kind # "pair" THEN "TypeError"
  ELSE IF /\ bounds.low * metric.den <= metric.num * bounds.scale
          /\ metric.num * bounds.scale <= bounds.high * metric.den
       THEN "pass" ELSE "fail"

\* quality_threshold <= quality: "TypeError" when the threshold is text.
AtLeast(threshold, metric) ==
  IF threshold.kind # "scalar" THEN "TypeError"
  ELSE IF threshold.value * metric.den <= metric.num THEN "pass" ELSE "fail"

\* The body of the loop for one record: "write", "skip" or the exception raised.
\* The three metrics are computed before the first comparison.
Verdict(rec, length_bounds, gc_bounds, quality_threshold) ==
  IF Len(rec.quality) = 0 THEN "ZeroDivisionError"
  ELSE IF Between(length_bounds, SeqLen(rec)) # "pass"
       THEN (IF Between(length_bounds, SeqLen(rec)) = "fail" THEN "skip"
             ELSE "TypeError")
  ELSE IF Between(gc_bounds, GcContent(rec)) # "pass"
       THEN (IF Between(gc_bounds, GcContent(rec)) = "fail" THEN "skip"
             ELSE "TypeError")
  ELSE IF AtLeast(quality_threshold, MeanQuality(rec)) # "pass"
       THEN (IF AtLeast(quality_threshold, MeanQuality(rec)) = "fail"
             THEN "skip" ELSE "TypeError")
  ELSE "write"

\* SeqIO.write(fastq_seq, out_file, "fastq"): the four lines of the record.
FastqLines(rec) == << <<"@">> \o rec.name, rec.seq, <<"+">>, rec.quality >>

\* The start of the run is logged, then the destination is tested.
FilterStart ==
  /\ op = FilterOp /\ pc = "start"
  /\ IF dest.exists
     THEN /\ RaiseFileExists
          /\ log' = log \o <<"Starting FASTQ filtering", "already exists">>
     ELSE /\ log' = Append(log, "Starting FASTQ filtering")
          /\ local' = [local EXCEPT
                         !.gc_bounds = NormalizeBounds(@),
                         !.length_bounds = NormalizeBounds(@),
                         !.filtered_count = 0,
                         !.total_count = 0]
          /\ dest' = OpenForWriting
          /\ open_files' = {"input", "output"}
          /\ pc' = "loop"
          /\ UNCHANGED <<op, args, input_file, pos, exc, yielded>>

\* One record.  An exception leaves the `with' block, which closes the
\* destination; the handle SeqIO.parse opened is closed when the parser is
\* collected, before or after the exception reaches the caller.
FilterRecord ==
  /\ op = FilterOp /\ pc = "loop" /\ pos < Len(input_file)
  /\ LET rec == input_file[pos + 1]
         verdict == Verdict(rec, local.length_bounds, local.gc_bounds,
                            args.quality_threshold)
     IN /\ pos' = pos + 1
        /\ local' = [local EXCEPT
                       !.total_count = @ + 1,
                       !.filtered_count = IF verdict = "write" THEN @ + 1 ELSE @]
        /\ dest' = IF verdict = "write" THEN WriteLines(dest, FastqLines(rec))
                   ELSE dest
        /\ IF verdict \in {"write", "skip"}
           THEN UNCHANGED <<pc, exc, open_files>>
           ELSE /\ pc' = "error"
                /\ exc' = verdict
                /\ open_files' \in {{}, {"input"}}
  /\ UNCHANGED <<op, args, input_file, log, yielded>>

\* The records are exhausted: the files are closed and the end is logged.
FilterEnd ==
  /\ op = FilterOp /\ pc = "loop" /\ pos = Len(input_file)
  /\ open_files' = {}
  /\ log' = Append(log, "Filtering finished")
  /\ pc' = "done"
  /\ UNCHANGED <<op, args, input_file, pos, dest, exc, local, yielded>>

-----------------------------------------------------------------------------
(* fastq_to_dict_generator and the code that consumes it                   *)

GeneratorOp == "fastq_to_dict_generator"

\* '@r', ' AC ', '+' and 'II'
FastqTexts ==
  { <<"@", "r">>, <<" ", "A", "C", " ">>, <<"+">>, <<"I", "I">> }

InitGenerator ==
  /\ op = GeneratorOp
  /\ args = NoArgs
  /\ input_file \in SeqsUpTo({RawLine(t) : t \in FastqTexts}, MaxFastqLines)
  /\ dest = NoFile
  /\ local = NoLocals
  /\ log = <<>>
  /\ yielded = <<>>

\* The record without the `next(fastq_file)' that drops the third line.
RecordOfLinesShifted(l1, l2, l3, l4) ==
  [name |-> Strip(l1), sequence |-> Strip(l2), quality |-> Strip(l3)]

\* {name: (sequence, quality)} of four lines; the third line is dropped.
RecordOfLines(l1, l2, l3, l4) ==
  [name |-> Strip(l1), sequence |-> Strip(l2), quality |-> Strip(l4)]

\* The consumer asks for the next record.  The first request opens the file.
\* With four lines left a record is yielded; with fewer the lines are read,
\* StopIteration is caught and the generator ends.
GeneratorNext ==
  /\ op = GeneratorOp /\ pc \in {"start", "suspended"}
  /\ IF pos + 4 <= Len(input_file)
     THEN /\ yielded' = Append(yielded,
                          RecordOfLines(input_file[pos + 1], input_file[pos + 2],
                                        input_file[pos + 3], input_file[pos + 4]))
          /\ pos' = pos + 4
          /\ open_files' = {"input"}
          /\ pc' = "suspended"
     ELSE /\ pos' = Len(input_file)
          /\ open_files' = {}
          /\ pc' = "done"
          /\ UNCHANGED yielded
  /\ UNCHANGED <<op, args, input_file, dest, exc, local, log>>

\* The consumer stops asking; the generator stays suspended at its yield.
GeneratorAbandon ==
  /\ op = GeneratorOp /\ pc = "suspended"
  /\ pc' = "abandoned"
  /\ UNCHANGED <<op, args, input_file, pos, dest, open_files, exc, local, log,
                 yielded>>

\* The abandoned generator is closed or collected: GeneratorExit is raised at
\* the yield and the with statement closes the file.
GeneratorClose ==
  /\ op = GeneratorOp /\ pc = "abandoned"
  /\ open_files' = {}
  /\ pc' = "closed"
  /\ UNCHANGED <<op, args, input_file, pos, dest, exc, local, log, yielded>>

-----------------------------------------------------------------------------
(* Claims about the destination.                                           *)

WriterOps == {FastaOp, BlastOp, GbkOp, FilterOp}

\* C2: a writing operation that finds its destination present when it starts
\* raises FileExistsError in its first step, having read no input and opened no
\* file, and leaves the destination as it was; nothing follows the error.
C2_DestinationExists ==
  /\ [][(op \in WriterOps /\ pc = "start" /\ dest.exists) =>
          /\ pc' = "error" /\ exc' = "FileExistsError"
          /\ dest' = dest
          /\ pos' = 0 /\ input_file' = input_file
          /\ open_files' = {}]_vars
  /\ [][(pc = "error" /\ exc = "FileExistsError") => dest' = dest]_vars
  /\ [](pc = "error" /\ exc = "FileExistsError" =>
          dest = OldFile /\ pos = 0 /\ open_files = {})

\* filter_fastq stopped by a destination that was there, which still holds
\* what it held.
C2_Witness ==
  /\ op = FilterOp /\ pc = "error" /\ exc = "FileExistsError"
  /\ input_file # <<>>
  /\ dest = OldFile /\ pos = 0

-----------------------------------------------------------------------------
(* Claims about filter_fastq.                                              *)

AllNumeric ==
  /\ args.gc_bounds.kind \in {"pair", "scalar"}
  /\ args.length_bounds.kind \in {"pair", "scalar"}
  /\ args.quality_threshold.kind = "scalar"

\* The bounds the claims give to an argument.
BoundsOf(arg) == IF arg.kind = "scalar" THEN Pair(0, arg.value) ELSE arg

\* The three predicates of a record, each on its own.
LengthOk(rec) ==
  LET b == BoundsOf(args.length_bounds)
  IN /\ b.low <= Len(rec.seq) * b.scale
     /\ Len(rec.seq) * b.scale <= b.high

GcOk(rec) ==
  LET b == BoundsOf(args.gc_bounds)
      gc == Cardinality({i \in 1..Len(rec.seq) :
                           rec.seq[i] \in {"G", "C", "g", "c"}})
  IN /\ b.low * Len(rec.seq) <= 100 * gc * b.scale
     /\ 100 * gc * b.scale <= b.high * Len(rec.seq)

\* A record without quality characters has no mean and does not pass.
QualityOk(rec) ==
  /\ rec.quality # <<>>
  /\ args.quality_threshold.value * Len(rec.quality) <= SumPhred(rec.quality)

\* The records of the whole input that satisfy the three predicates.
BatchFiltered ==
  SelectSeq(input_file, LAMBDA r : LengthOk(r) /\ GcOk(r) /\ QualityOk(r))

LinesOfRecords(recs) == Flatten([k \in 1..Len(recs) |-> FastqLines(recs[k])])

\* C3 as stated: for every input and all numeric bounds, when filter_fastq has
\* ended the destination holds exactly the records that satisfy the three
\* predicates, in input order.
C3_StreamEqualsBatch ==
  (op = FilterOp /\ Terminated /\ exc # "FileExistsError" /\ AllNumeric) =>
    dest.content = LinesOfRecords(BatchFiltered)

\* What the code does guarantee: a run that returns has written the batch
\* result.
FilterMatchesBatchOnReturn ==
  (op = FilterOp /\ pc = "done" /\ AllNumeric) =>
    dest.content = LinesOfRecords(BatchFiltered)

\* The sequences of the records written so far.
WrittenSeqs ==
  {dest.content[4 * k - 2] : k \in 1..(Len(dest.content) \div 4)}

\* bounds, as an argument and as the loop uses it, and the metric num / den of
\* every record written.
NormalizedAs(arg, used, metrics) ==
  /\ arg.kind = "scalar" =>
       /\ used = Pair(0, arg.value)
       /\ \A m \in metrics : 0 <= m.num /\ m.num <= arg.value * m.den
  /\ arg.kind = "pair" =>
       /\ used = arg
       /\ arg.low > arg.high => metrics = {}

\* C6: once filter_fastq has passed its start, a scalar bound x is used as
\* (0, x) and a pair is used as it is; with a scalar x every record written has
\* its metric in 0..x, and with a pair (a, b), a > b, no record is written.
C6_BoundsNormalized ==
  (op = FilterOp /\ pc # "start" /\ exc # "FileExistsError") =>
    /\ NormalizedAs(args.gc_bounds, local.gc_bounds,
                    {GcContent([seq |-> w]) : w \in WrittenSeqs})
    /\ NormalizedAs(args.length_bounds, local.length_bounds,
                    {SeqLen([seq |-> w]) : w \in WrittenSeqs})

\* gc_bounds = 50: of GGGG (GC 100) and gCAT (GC 50) only gCAT is written.
C6_Witness ==
  /\ op = FilterOp /\ pc = "done"
  /\ args.gc_bounds = Scalar(50) /\ local.gc_bounds = Pair(0, 50)
  /\ \E i \in 1..Len(input_file) : input_file[i].seq = <<"G", "G", "G", "G">>
  /\ WrittenSeqs = { <<"g", "C", "A", "T">> }

\* C8 as stated: a call with text as the GC bounds, the length bounds or the
\* quality threshold ends with a TypeError or a ValueError.
C8_TextBoundsFail ==
  (op = FilterOp /\ Terminated /\ exc # "FileExistsError" /\ ~AllNumeric) =>
    pc = "error" /\ exc \in {"TypeError", "ValueError"}

-----------------------------------------------------------------------------
(* Claims about fastq_to_dict_generator.                                   *)

-----------------------------------------------------------------------------
(* The commit rule of select_genes_from_gbk_to_fasta.                      *)

\* line.strip() of the i-th line of the input.
GbkLineAt(i) == Strip(input_file[i])

IsNameMarker(i) == StartsWith(GbkLineAt(i), GeneLabel)
IsValueMarker(i) == StartsWith(GbkLineAt(i), TranslationLabel)
ClosesValue(i) == EndsWith(GbkLineAt(i), <<Q>>)

\* The name a name-marker line gives.
NameAt(i) == StripChars(SplitLast(GbkLineAt(i), <<"=">>), {Q})

\* The last line of the value that the value-marker line t opens: t itself when
\* it ends with the quote, else the first later line that does.
ValueEnd(t) ==
  IF ClosesValue(t) THEN t
  ELSE Min({j \in (t + 1)..Len(input_file) : ClosesValue(j)}
             \cup {Len(input_file)})

\* The value read from the value-marker line t and the lines after it up to
\* line c: the text after the '=' of line t without its quotes, then each
\* following line without the quotes at its ends, with nothing in between.
ValueFromTo(t, c) ==
  StripChars(Strip(SplitLast(GbkLineAt(t), <<"=">>)), {Q})
    \o Flatten([k \in 1..(c - t) |-> StripChars(GbkLineAt(t + k), {Q})])

\* The value that the value-marker line t gives.
ValueAt(t) == ValueFromTo(t, ValueEnd(t))

\* The lines from i on that the for loop meets: the lines after an accepted
\* value-marker line up to the end of its value are taken by the while loop.
RECURSIVE MetLines(_, _)
MetLines(i, awaiting) ==
  IF i > Len(input_file) THEN {}
  ELSE IF IsNameMarker(i) THEN {i} \cup MetLines(i + 1, TRUE)
  ELSE IF IsValueMarker(i) /\ awaiting
       THEN {i} \cup MetLines(ValueEnd(i) + 1, FALSE)
  ELSE {i} \cup MetLines(i + 1, awaiting)

\* The commit rule over the lines in met: one entry, in source order, for each
\* name-marker line that a value-marker line follows before the next
\* name-marker line, with the value of the first such line; with nonEmpty,
\* only where the name and that value are not the empty text.
CommitRule(met, nonEmpty) ==
  LET NextName(g) == Min({n \in met : n > g /\ IsNameMarker(n)}
                           \cup {Len(input_file) + 1})
      Values(g) == {t \in met : g < t /\ t < NextName(g) /\ IsValueMarker(t)}
      FirstValue(g) == Min(Values(g))
      kept == SelectSeq([i \in 1..Len(input_file) |-> i],
                LAMBDA g : /\ g \in met /\ IsNameMarker(g)
                           /\ Values(g) # {}
                           /\ nonEmpty => /\ NameAt(g) # <<>>
                                          /\ ValueAt(FirstValue(g)) # <<>>)
  IN [k \in 1..Len(kept) |-> <<NameAt(kept[k]), ValueAt(FirstValue(kept[k]))>>]

GbkWholeInputParsed == op = GbkOp /\ pc \in {"write", "done"}

\* C11 as stated: after the whole input is parsed the committed list has, in
\* source order, exactly one entry for each '/gene=' line of the input that a
\* '/translation=' line follows before the next '/gene=' line or the end of
\* the input, paired with the first such value.
C11_CommitRule ==
  GbkWholeInputParsed =>
    local.fasta_list = CommitRule(1..Len(input_file), FALSE)

\* C11, amended: the rule holds of the lines that the for loop meets, a line
\* taken as part of a value on several lines being no marker, and an entry is
\* committed only when its name and its value are not the empty text.
C11_CommitRuleOfMetLines ==
  GbkWholeInputParsed =>
    local.fasta_list = CommitRule(MetLines(1, FALSE), TRUE)

\* '/gene="C"', '/translation="V', '  /gene="A"', '  /translation="M"': the
\* line of A is part of the value of C, and the value M is ignored.
C11_Witness ==
  /\ GbkWholeInputParsed
  /\ Len(input_file) = 4
  /\ local.fasta_list
       = << << <<"C">>, <<"V", "/", "g", "e", "n", "e", "=", Q, "A">> >> >>

-----------------------------------------------------------------------------
(* A value on several lines.                                               *)

\* C12: a value that select_genes_from_gbk_to_fasta holds was read from a
\* '/translation=' line t and the lines after it up to a line c, none of the
\* lines t..c-1 ending with the quote: it is the quoted text of line t followed
\* by each of the lines t+1..c without the quotes at its ends, with no
\* separator. While line c does not end with the quote the parser is still
\* consuming lines, whatever they contain; once it does, the value is complete
\* and translation_is_in_gene is false.
C12_ValueOnSeveralLines ==
  (/\ op = GbkOp /\ pc \in {"loop", "continuation", "write", "done"}
   /\ local.translation # None)
    => \E t \in 1..pos : \E c \in t..pos :
         /\ IsValueMarker(t)
         /\ \A j \in t..(c - 1) : ~ClosesValue(j)
         /\ local.translation = ValueFromTo(t, c)
         /\ IF pc = "continuation"
            THEN c = pos /\ ~ClosesValue(c) /\ local.translation_is_in_gene
            ELSE ClosesValue(c) /\ ~local.translation_is_in_gene

\* '/gene="C"', '/translation="V', '  /gene="A"': the third line, a name
\* marker, is consumed as the end of the value opened on the second.
C12_Witness ==
  /\ op = GbkOp /\ pc = "loop" /\ pos = 3
  /\ IsValueMarker(2) /\ ~ClosesValue(2) /\ IsNameMarker(3)
  /\ local.gene = <<"C">>
  /\ local.translation = <<"V", "/", "g", "e", "n", "e", "=", Q, "A">>
  /\ ~local.translation_is_in_gene

-----------------------------------------------------------------------------
(* The order of the predicates of filter_fastq.                            *)

\* C13: a record that fails the length predicate is skipped without its GC
\* content or its mean quality being computed or compared, so that nothing in
\* those later steps raises an error for it: the step of filter_fastq on such
\* a record stays in the loop and writes nothing.
C13_FailedLengthRaisesNothing ==
  [][(/\ op = FilterOp /\ pc = "loop" /\ pos < Len(input_file)
      /\ args.length_bounds.kind \in {"pair", "scalar"}
      /\ ~LengthOk(input_file[pos + 1]))
       => pc' = "loop" /\ dest' = dest]_vars

\* What holds of the order: the comparisons are made in the order length, GC,
\* quality and stop at the first that fails, so a record with a quality line
\* that is not empty and fails the length predicate is skipped whatever the GC
\* bounds and the threshold are; only the metrics are computed beforehand.
FailedLengthSkipsWithQuality ==
  [][(/\ op = FilterOp /\ pc = "loop" /\ pos < Len(input_file)
      /\ args.length_bounds.kind \in {"pair", "scalar"}
      /\ ~LengthOk(input_file[pos + 1])
      /\ input_file[pos + 1].quality # <<>>)
       => pc' = "loop" /\ dest' = dest]_vars

-----------------------------------------------------------------------------
(* The GC predicate of filter_fastq.                                       *)

\* low <= round(100 * gc_count / len, 3) <= high, for the bounds of the call.
GcOkRounded(rec) ==
  LET b == BoundsOf(args.gc_bounds)
      gc == Cardinality({i \in 1..Len(rec.seq) :
                           rec.seq[i] \in {"G", "C", "g", "c"}})
      rounded == IF rec.seq = <<>> THEN 0
                 ELSE RoundToThousandths(100 * gc, Len(rec.seq))
  IN /\ b.low * 1000 <= rounded * b.scale
     /\ rounded * b.scale <= b.high * 1000

\* C14 as stated: the GC predicate compares the percentage of G and C, in
\* either case, after rounding it to 3 decimal places: when filter_fastq has
\* returned, a record that passes the length and the quality predicates has
\* been written exactly when low <= round(100 * gc_count / len, 3) <= high.
C14_GcRounded ==
  (op = FilterOp /\ pc = "done" /\ AllNumeric) =>
    \A i \in 1..Len(input_file) :
      LengthOk(input_file[i]) /\ QualityOk(input_file[i]) =>
        (input_file[i].seq \in WrittenSeqs <=> GcOkRounded(input_file[i]))

\* C14, amended: the percentage is compared as it is, without rounding: such a
\* record has been written exactly when low <= 100 * gc_count / len <= high.
C14_GcNotRounded ==
  (op = FilterOp /\ pc = "done" /\ AllNumeric) =>
    \A i \in 1..Len(input_file) :
      LengthOk(input_file[i]) /\ QualityOk(input_file[i]) =>
        (input_file[i].seq \in WrittenSeqs <=> GcOk(input_file[i]))

\* GAT, whose percentage is 33.333... and rounds to 33.333, passes the length
\* and the quality predicates and is not written with the bounds (0, 33.333).
C14_Witness ==
  /\ op = FilterOp /\ pc = "done" /\ AllNumeric
  /\ \E i \in 1..Len(input_file) :
       /\ LengthOk(input_file[i]) /\ QualityOk(input_file[i])
       /\ input_file[i].seq = <<"G", "A", "T">>
       /\ args.gc_bounds = PairOfThousandths(0, 33333)
       /\ GcOkRounded(input_file[i])
       /\ input_file[i].seq \notin WrittenSeqs

-----------------------------------------------------------------------------
(* The file handles.                                                       *)

\* C15: every file handle is closed on every exit path: when an operation has
\* returned or has aborted with an error, and when the consumer of
\* fastq_to_dict_generator has stopped requesting records, no file that the
\* operation opened is still open.
C15_HandlesClosed == Terminated => open_files = {}

\* What holds of the handles: a file opened by a with statement is closed when
\* its function returns or raises, which covers the three operations of
\* bio_files_processor and the output of filter_fastq, and the file of the
\* generator is closed when the generator ends, is closed or is collected.
WithStatementsClose ==
  /\ op \in {FastaOp, BlastOp, GbkOp} /\ Terminated => open_files = {}
  /\ op = FilterOp /\ Terminated => "output" \notin open_files
  /\ op = FilterOp /\ pc = "done" => open_files = {}
  /\ op = GeneratorOp /\ pc \in {"done", "closed"} => open_files = {}

-----------------------------------------------------------------------------
(* No partial output.                                                      *)

\* C16: when parse_blast_output or select_genes_from_gbk_to_fasta aborts on an
\* input that ends where a line is required, the destination has not been
\* created and nothing has been written; in both the destination is opened
\* only after the whole input has been parsed, so that a destination that a
\* run has created belongs to a run that read every line and returned.
C16_NoPartialOutput ==
  /\ (op \in {BlastOp, GbkOp} /\ pc = "error" /\ exc = "StopIteration")
       => dest = NoFile /\ "output" \notin open_files
  /\ (op \in {BlastOp, GbkOp} /\ pc # "start" /\ exc = "None" /\ dest # NoFile)
       => pos = Len(input_file) /\ pc = "done"

\* parse_blast_output has collected a description and then meets a marker
\* line that is the last line: it aborts and there is no destination.
C16_Witness ==
  /\ op = BlastOp /\ pc = "error" /\ exc = "StopIteration"
  /\ local.descriptions # <<>>
  /\ dest = NoFile

-----------------------------------------------------------------------------

Init ==
  /\ pos = 0
  /\ open_files = {}
  /\ pc = "start"
  /\ exc = "None"
  /\ \/ InitFasta
     \/ InitBlast
     \/ InitGbk
     \/ InitFilter
     \/ InitGenerator

Next ==
  \/ FastaStart
  \/ FastaLine
  \/ FastaEnd
  \/ BlastStart
  \/ BlastLine
  \/ BlastNext
  \/ BlastEnd
  \/ GbkStart
  \/ GbkLine
  \/ GbkContinuation
  \/ GbkParsed
  \/ GbkWrite
  \/ FilterStart
  \/ FilterRecord
  \/ FilterEnd
  \/ GeneratorNext
  \/ GeneratorAbandon
  \/ GeneratorClose

Spec == Init /\ [][Next]_vars

=============================================================================
